---- MODULE Spec2Model ----
(***************************************************************************)
(* A model of src/error.rs: the Error value of an HTTP client (kind, cause *)
(* chain, URL), its constructors, its accessors, its Display rendering and *)
(* the into_io / decode_io bridge.                                         *)
(*                                                                         *)
(* The module has no global state: every function takes one value and      *)
(* returns one.  The state of the model is therefore the one value that is *)
(* currently owned by the caller, laid out as the boxes it owns: heap[i]   *)
(* is the i-th box of the ownership chain, the last box is the value in    *)
(* hand, and a cause that is itself a boxed Error or io::Error is a        *)
(* reference to the box below.  A box keeps its index for as long as it    *)
(* lives, so the index is the identity of the value.                       *)
(***************************************************************************)
EXTENDS Integers, Sequences, FiniteSets, TLC

VARIABLES heap, last, debug_assertions

vars == <<heap, last, debug_assertions>>

\* The longest ownership chain (boxed Error / io::Error values) explored.
MaxObjs == 3

\* ------------------------------------------------------------------ inputs

Urls == {"https://x.test/", "http://a.test/"}

\* Status codes handed to status_code: one per class the code distinguishes
\* (neither 4xx nor 5xx, 4xx, 5xx).
StatusCodes == {200, 404, 500}

\* ------------------------------------------------------------------ values

\* Option::None, for Inner.source, Inner.url and status().
None == [t |-> "None"]

Some(v) == [t |-> "Some", v |-> v]

\* A cause (BoxError) by its dynamic type: the two marker types, a string
\* message, or a boxed Error / io::Error held in heap[a].
TimedOut == [t |-> "TimedOut"]

BlockingClientInAsyncContext == [t |-> "BlockingClientInAsyncContext"]

Str(s) == [t |-> "str", s |-> s]

Ref(a) == [t |-> "ref", a |-> a]

\* Causes a collaborator hands to a constructor that are not themselves
\* an Error or an io::Error.
LeafCauses == {TimedOut, BlockingClientInAsyncContext, Str("orig")}

\* enum Kind
Kind(k) == [k |-> k, code |-> 0]

KindStatus(code) == [k |-> "Status", code |-> code]

\* The dynamic type of a cause, as Any::is / downcast see it.
TypeOf(h, c) == IF c.t = "ref" THEN h[c.a].tag ELSE c.t

\* ------------------------------------------------------------ Error::new

\* Error::new(kind, source): url starts out None.
Error_new(kind, src) == [tag |-> "Error", kind |-> kind, source |-> src, url |-> None]

\* io::Error::new(io::ErrorKind::Other, payload); payload None stands for an
\* io::Error that carries no custom payload (get_ref() == None).
io_Error_new(payload) == [tag |-> "IoError", kind |-> "Other", source |-> payload]

\* ------------------------------------------------------------- accessors

\* Error::url
url(e) == e.url

\* Error::is_builder
is_builder(e) == IF e.kind.k = "Builder" THEN TRUE ELSE FALSE

\* Error::is_redirect
is_redirect(e) == IF e.kind.k = "Redirect" THEN TRUE ELSE FALSE

is_status_also_redirect(e) == e.kind.k \in {"Status", "Redirect"}

\* Error::is_status
is_status(e) == IF e.kind.k = "Status" THEN TRUE ELSE FALSE

\* <Error as StdError>::source
source(e) == e.source

RECURSIVE is_timeout_deep(_, _)
is_timeout_deep(h, e) ==
    LET c == source(e) IN
    IF c = None THEN FALSE
    ELSE IF TypeOf(h, c) = "TimedOut" THEN TRUE
    ELSE IF c.t = "ref" THEN is_timeout_deep(h, h[c.a])
    ELSE FALSE

\* Error::is_timeout: self.source().map(|e| e.is::<TimedOut>()).unwrap_or(false)
is_timeout(h, e) ==
    LET c == source(e) IN
    IF c = None THEN FALSE ELSE TypeOf(h, c) = "TimedOut"

\* Error::status
status(e) == IF e.kind.k = "Status" THEN Some(e.kind.code) ELSE None

with_url_keep_first(e, u) == IF e.url = None THEN [e EXCEPT !.url = Some(u)] ELSE e

\* Error::with_url
with_url(e, u) == [e EXCEPT !.url = Some(u)]

\* ---------------------------------------------------------- constructors

\* fn builder
builder(c) == Error_new(Kind("Builder"), c)

\* fn body
body(c) == Error_new(Kind("Body"), c)

decode_as_body(c) == Error_new(Kind("Body"), c)

\* fn decode
decode(c) == Error_new(Kind("Decode"), c)

request_without_cause(c) == Error_new(Kind("Request"), None)

\* fn request
request(c) == Error_new(Kind("Request"), c)

\* fn loop_detected
loop_detected(u) ==
    with_url(Error_new(Kind("Redirect"), Str("infinite redirect loop detected")), u)

\* fn too_many_redirects
too_many_redirects(u) ==
    with_url(Error_new(Kind("Redirect"), Str("too many redirects")), u)

\* fn status_code
status_code(u, code) == with_url(Error_new(KindStatus(code), None), u)

url_bad_scheme_as_redirect(u) ==
    with_url(Error_new(Kind("Redirect"), Str("URL scheme is not allowed")), u)

\* fn url_bad_scheme
url_bad_scheme(u) ==
    with_url(Error_new(Kind("Builder"), Str("URL scheme is not allowed")), u)

\* ------------------------------------------------------------ I/O bridge

\* Error::into_io / fn into_io: the value in hand, heap[Len(h)], is moved
\* into a new io::Error as its payload.
into_io(h) == Append(h, io_Error_new(Ref(Len(h))))

decode_io_always_wraps(h) == Append(h, decode(Ref(Len(h))))

\* e.get_ref().map(|r| r.is::<Error>()).unwrap_or(false)
get_ref_is_Error(h, x) ==
    LET r == x.source IN
    IF r = None THEN FALSE ELSE TypeOf(h, r) = "Error"

\* fn decode_io, applied to the io::Error in hand, heap[Len(h)]: either the
\* payload is moved out of the io::Error, which is dropped, or the io::Error
\* is moved into a new Error as its cause.
decode_io(h) ==
    IF get_ref_is_Error(h, h[Len(h)])
    THEN SubSeq(h, 1, h[Len(h)].source.a)
    ELSE Append(h, decode(Ref(Len(h))))

\* --------------------------------------------------------------- Display

\* StatusCode::is_client_error, as Display uses it
is_client_error(code) == 400 <= code /\ code < 500

\* StatusCode::is_server_error, as the debug assertion uses it
is_server_error(code) == 500 <= code /\ code < 600

\* The text "{}" writes for a StatusCode.  StatusCode belongs to another
\* crate; its text is represented by the decimal code.
StatusCodeText(code) == ToString(code)

\* The outcome of a fmt call: the text written, or a panic (a failed
\* debug_assert!), which unwinds through every enclosing fmt call.
Written(text) == [ok |-> TRUE, text |-> text]

Panicked == [ok |-> FALSE, text |-> ""]

\* ForUrl's Display
ForUrl(u) == IF u # None THEN " for url (" \o u.v \o ")" ELSE ""

\* The match on self.inner.kind in Display.  dbg is cfg!(debug_assertions):
\* debug_assert! is evaluated only when it is set.
fmt_kind(kind, dbg) ==
    CASE kind.k = "Builder" -> Written("builder error")
      [] kind.k = "Request" -> Written("error sending request")
      [] kind.k = "Body" -> Written("request or response body error")
      [] kind.k = "Decode" -> Written("error decoding response body")
      [] kind.k = "Redirect" -> Written("error following redirect")
      [] kind.k = "Status" ->
            IF is_client_error(kind.code)
            THEN Written("HTTP status client error" \o " (" \o StatusCodeText(kind.code) \o ")")
            ELSE IF dbg /\ ~is_server_error(kind.code)
            THEN Panicked
            ELSE Written("HTTP status server error" \o " (" \o StatusCodeText(kind.code) \o ")")

RECURSIVE fmt_Error(_, _, _), fmt_cause(_, _, _)

\* Display of an io::Error: its custom payload's Display, or the text of
\* its ErrorKind when it has none.
fmt_io_Error(h, x, dbg) ==
    IF x.source = None THEN Written("other error") ELSE fmt_cause(h, x.source, dbg)

\* Display of a cause, by its dynamic type.
fmt_cause(h, c, dbg) ==
    CASE c.t = "TimedOut" -> Written("operation timed out")
      [] c.t = "BlockingClientInAsyncContext" ->
            Written("blocking Client used inside a Future context")
      [] c.t = "str" -> Written(c.s)
      [] c.t = "ref" ->
            IF h[c.a].tag = "Error"
            THEN fmt_Error(h, h[c.a], dbg)
            ELSE fmt_io_Error(h, h[c.a], dbg)

\* impl fmt::Display for Error: the kind phrase, then ForUrl, then the cause.
fmt_Error(h, e, dbg) ==
    LET k == fmt_kind(e.kind, dbg)
        u == ForUrl(e.url)
        s == IF e.source # None THEN fmt_cause(h, e.source, dbg) ELSE Written("")
    IN  IF ~k.ok \/ ~s.ok THEN Panicked
        ELSE IF e.source # None
        THEN Written(k.text \o u \o ": " \o s.text)
        ELSE Written(k.text \o u)

\* ---------------------------------------------------------------- actions

\* The value in hand and its address.
top == heap[Len(heap)]

HoldsError == heap # <<>> /\ top.tag = "Error"

HoldsIoError == heap # <<>> /\ top.tag = "IoError"

\* The causes a caller can hand to a constructor: a fresh leaf value when it
\* holds nothing, else the value in hand, which is moved into the new Error.
AvailableCauses ==
    IF heap = <<>> THEN LeafCauses
    ELSE IF Len(heap) < MaxObjs THEN {Ref(Len(heap))}
    ELSE {}

\* A call of one of the constructors that take a cause: e is what it
\* returned for cause c.
CallWithCause(op, c, e) ==
    /\ heap' = Append(heap, e)
    /\ last' = [op |-> op, cause |-> c, res |-> Len(heap) + 1]
    /\ UNCHANGED debug_assertions

Builder == \E c \in AvailableCauses : CallWithCause("builder", c, builder(c))

Body == \E c \in AvailableCauses : CallWithCause("body", c, body(c))

Decode == \E c \in AvailableCauses : CallWithCause("decode", c, decode(c))

Request == \E c \in AvailableCauses : CallWithCause("request", c, request(c))

\* A call of one of the constructors that take a URL: e is what it returned
\* for URL u.
CallWithUrl(op, u, e) ==
    /\ heap = <<>>
    /\ heap' = <<e>>
    /\ last' = [op |-> op, url |-> u, res |-> 1]
    /\ UNCHANGED debug_assertions

LoopDetected == \E u \in Urls : CallWithUrl("loop_detected", u, loop_detected(u))

TooManyRedirects ==
    \E u \in Urls : CallWithUrl("too_many_redirects", u, too_many_redirects(u))

UrlBadScheme == \E u \in Urls : CallWithUrl("url_bad_scheme", u, url_bad_scheme(u))

StatusCode ==
    \E u \in Urls, code \in StatusCodes :
        /\ heap = <<>>
        /\ heap' = <<status_code(u, code)>>
        /\ last' = [op |-> "status_code", url |-> u, code |-> code, res |-> 1]
        /\ UNCHANGED debug_assertions

\* An io::Error made outside this module, as in tests::from_unknown_io_error:
\* without a payload, with a leaf payload, or around the io::Error in hand.
NewIoError ==
    /\ \/ \E p \in LeafCauses \cup {None} :
            /\ heap = <<>>
            /\ heap' = <<io_Error_new(p)>>
            /\ last' = [op |-> "io_new", cause |-> p, res |-> 1]
       \/ /\ HoldsIoError
          /\ Len(heap) < MaxObjs
          /\ heap' = Append(heap, io_Error_new(Ref(Len(heap))))
          /\ last' = [op |-> "io_new", cause |-> Ref(Len(heap)), res |-> Len(heap) + 1]
    /\ UNCHANGED debug_assertions

\* The argument of a call that takes the value in hand: its address and
\* its contents at the call.
Arg == [addr |-> Len(heap), cell |-> top]

WithUrl ==
    /\ HoldsError
    /\ \E u \in Urls :
        /\ heap' = [heap EXCEPT ![Len(heap)] = with_url(@, u)]
        /\ last' = [op |-> "with_url", arg |-> Arg, url |-> u, res |-> Len(heap)]
    /\ UNCHANGED debug_assertions

IntoIo ==
    /\ HoldsError
    /\ Len(heap) < MaxObjs
    /\ heap' = into_io(heap)
    /\ last' = [op |-> "into_io", arg |-> Arg, res |-> Len(heap')]
    /\ UNCHANGED debug_assertions

DecodeIo ==
    /\ HoldsIoError
    /\ get_ref_is_Error(heap, top) \/ Len(heap) < MaxObjs
    /\ heap' = decode_io(heap)
    /\ last' = [op |-> "decode_io", arg |-> Arg, res |-> Len(heap')]
    /\ UNCHANGED debug_assertions

\* A call of a read-only accessor on the Error in hand; last keeps what it
\* returned.
Query(op, result) ==
    /\ HoldsError
    /\ last' = [op |-> op, res |-> result]
    /\ UNCHANGED <<heap, debug_assertions>>

GetUrl == Query("url", url(top))

IsBuilder == Query("is_builder", is_builder(top))

IsRedirect == Query("is_redirect", is_redirect(top))

IsStatus == Query("is_status", is_status(top))

IsTimeout == Query("is_timeout", is_timeout(heap, top))

GetStatus == Query("status", status(top))

GetSource == Query("source", source(top))

Display == Query("Display", fmt_Error(heap, top, debug_assertions))

\* The value in hand goes out of scope: it is dropped with everything it
\* owns, and the caller starts over.
Drop ==
    /\ heap # <<>>
    /\ heap' = <<>>
    /\ last' = [op |-> "drop"]
    /\ UNCHANGED debug_assertions

Init ==
    /\ heap = <<>>
    /\ last = [op |-> "none"]
    /\ debug_assertions \in BOOLEAN

Next ==
    \/ Builder
    \/ Body
    \/ Decode
    \/ Request
    \/ LoopDetected
    \/ TooManyRedirects
    \/ UrlBadScheme
    \/ StatusCode
    \/ NewIoError
    \/ WithUrl
    \/ IntoIo
    \/ DecodeIo
    \/ GetUrl
    \/ IsBuilder
    \/ IsRedirect
    \/ IsStatus
    \/ IsTimeout
    \/ GetStatus
    \/ GetSource
    \/ Display
    \/ Drop

Spec == Init /\ [][Next]_vars

\* ----------------------------------------------------------------- claims

\* Whether cell x, an io::Error, carries a payload whose type is Error.
PayloadIsError(x) ==
    /\ x.source # None
    /\ x.source.t = "ref"
    /\ heap[x.source.a].tag = "Error"

\* C1: decode_io(into_io(e)) returns e itself: the box that was handed to
\* into_io, with the kind, the cause and the URL it had then, with no
\* wrapping layer added, and not as the cause of the result; into_io moves
\* e, untouched, into the payload of the io::Error.
C1_RoundTripIsIdentity ==
    [][ /\ last'.op = "into_io" =>
            /\ SubSeq(heap', 1, Len(heap)) = heap
            /\ heap'[last'.res].tag = "IoError"
            /\ heap'[last'.res].source = Ref(last'.arg.addr)
        /\ (last.op = "into_io" /\ last'.op = "decode_io") =>
            /\ last'.res = last.arg.addr
            /\ Len(heap') = last.arg.addr
            /\ heap'[last'.res] = last.arg.cell
            /\ heap' = SubSeq(heap, 1, last.arg.addr)
            /\ heap'[last'.res].source # Ref(last.arg.addr)
      ]_vars

\* C1 witness: an Error of kind Request that has a cause and a URL has come
\* back out of the io::Error it was put into.
C1_Witness ==
    /\ last.op = "decode_io"
    /\ PayloadIsError(last.arg.cell)
    /\ last.res = last.arg.cell.source.a
    /\ top.kind.k = "Request"
    /\ top.source # None
    /\ top.url # None

\* C2: decode_io of an io::Error whose payload is not an Error (or that has
\* no payload) returns a new Error of kind Decode, without a URL, whose
\* direct cause is that io::Error, kept as it was.
C2_UnknownIoBecomesDecode ==
    (last.op = "decode_io" /\ ~PayloadIsError(last.arg.cell)) =>
        /\ Len(heap) = last.arg.addr + 1
        /\ last.res = Len(heap)
        /\ top.tag = "Error"
        /\ top.kind.k = "Decode"
        /\ source(top) = Ref(last.arg.addr)
        /\ heap[last.arg.addr] = last.arg.cell
        /\ url(top) = None

\* C2 witness: decode_io was given an io::Error without any payload.
C2_Witness ==
    /\ last.op = "decode_io"
    /\ last.arg.cell.source = None
    /\ top.kind.k = "Decode"

\* The number of links from box a down to a TimedOut marker; 0 when the
\* chain holds none.
RECURSIVE TimedOutDepth(_)
TimedOutDepth(a) ==
    LET c == heap[a].source IN
    IF c = None THEN 0
    ELSE IF c.t = "TimedOut" THEN 1
    ELSE IF c.t = "ref"
    THEN (IF TimedOutDepth(c.a) = 0 THEN 0 ELSE TimedOutDepth(c.a) + 1)
    ELSE 0

\* C3: is_timeout() is true exactly when the direct cause is the TimedOut
\* marker: it is false without a cause and false when the marker sits two
\* or more links down the chain.
C3_IsTimeoutIsShallow ==
    HoldsError =>
        /\ is_timeout(heap, top) <=> (TimedOutDepth(Len(heap)) = 1)
        /\ last.op = "is_timeout" => (last.res <=> (TimedOutDepth(Len(heap)) = 1))

\* C3 witness: is_timeout() returned false for an Error whose chain holds
\* the marker two links down.
C3_Witness ==
    /\ last.op = "is_timeout"
    /\ last.res = FALSE
    /\ TimedOutDepth(Len(heap)) >= 2

\* The kind phrases of the Display contract.
C4_KindPhrase(kind) ==
    CASE kind.k = "Builder" -> "builder error"
      [] kind.k = "Request" -> "error sending request"
      [] kind.k = "Body" -> "request or response body error"
      [] kind.k = "Decode" -> "error decoding response body"
      [] kind.k = "Redirect" -> "error following redirect"
      [] kind.k = "Status" /\ kind.code \in 400..499 ->
            "HTTP status client error (" \o StatusCodeText(kind.code) \o ")"
      [] kind.k = "Status" /\ kind.code \notin 400..499 ->
            "HTTP status server error (" \o StatusCodeText(kind.code) \o ")"

\* The text of the Display contract: kind phrase, URL suffix, cause suffix.
C4_Text(e) ==
    C4_KindPhrase(e.kind)
        \o (IF e.url = None THEN "" ELSE " for url (" \o e.url.v \o ")")
        \o (IF e.source = None THEN ""
            ELSE ": " \o fmt_cause(heap, e.source, debug_assertions).text)

\* C4: for every Error, Display writes the kind phrase, then the URL suffix,
\* then the cause suffix.
C4_DisplayText ==
    last.op = "Display" => last.res = Written(C4_Text(top))

\* C4, for the calls of Display that return: the text is the kind phrase,
\* then the URL suffix, then the cause suffix.
C4_DisplayTextWhenWritten ==
    (last.op = "Display" /\ last.res.ok) => last.res.text = C4_Text(top)

\* C5: whenever Display renders an Error of kind Status whose code is not
\* 4xx, the code is 5xx (the debug assertion of that branch holds).
C5_ServerBranchIsServerError ==
    (last.op = "Display" /\ top.kind.k = "Status" /\ ~is_client_error(top.kind.code))
        => is_server_error(top.kind.code)

\* C6: each constructor yields the stated kind, cause and URL, as seen
\* through the accessors; source() is Some exactly when a cause was given.
C6_Constructors ==
    /\ last.op \in {"builder", "body", "decode", "request"} =>
        /\ top.kind.k = CASE last.op = "builder" -> "Builder"
                          [] last.op = "body" -> "Body"
                          [] last.op = "decode" -> "Decode"
                          [] last.op = "request" -> "Request"
        /\ is_builder(top) = (last.op = "builder")
        /\ ~is_redirect(top) /\ ~is_status(top) /\ status(top) = None
        /\ source(top) # None
        /\ source(top) = last.cause
        /\ url(top) = None
    /\ last.op \in {"loop_detected", "too_many_redirects"} =>
        /\ is_redirect(top)
        /\ source(top) # None /\ source(top).t = "str"
        /\ url(top) = Some(last.url)
    /\ last.op = "url_bad_scheme" =>
        /\ is_builder(top)
        /\ source(top) = Str("URL scheme is not allowed")
        /\ url(top) = Some(last.url)
    /\ last.op = "status_code" =>
        /\ is_status(top)
        /\ status(top) = Some(last.code)
        /\ source(top) = None
        /\ url(top) = Some(last.url)

\* C6 witness: url_bad_scheme has returned an Error of kind Builder.
C6_Witness ==
    /\ last.op = "url_bad_scheme"
    /\ top.kind.k = "Builder"
    /\ top.url # None

\* C7: with_url(u) sets the URL to u, whether or not one was attached, and
\* leaves kind and cause as they were; applying it again with the same u
\* changes nothing.
C7_WithUrlOnlySetsUrl ==
    last.op = "with_url" =>
        /\ Len(heap) = last.arg.addr
        /\ url(top) = Some(last.url)
        /\ top.kind = last.arg.cell.kind
        /\ top.source = last.arg.cell.source
        /\ with_url(top, last.url) = top

\* C7 witness: with_url replaced a URL by a different one.
C7_Witness ==
    /\ last.op = "with_url"
    /\ last.arg.cell.url # None
    /\ last.arg.cell.url # Some(last.url)

\* C8: the kind queries agree with the stored kind; status() is Some(code)
\* exactly for Status(code); at most one of the three is_ queries is true
\* and none is for Request, Body and Decode.
C8_KindQueries ==
    HoldsError =>
        /\ is_builder(top) <=> top.kind.k = "Builder"
        /\ is_redirect(top) <=> top.kind.k = "Redirect"
        /\ is_status(top) <=> top.kind.k = "Status"
        /\ top.kind.k = "Status" => status(top) = Some(top.kind.code)
        /\ top.kind.k # "Status" => status(top) = None
        /\ is_status(top) <=> status(top) # None
        /\ Cardinality({q \in {"b", "r", "s"} :
                            \/ q = "b" /\ is_builder(top)
                            \/ q = "r" /\ is_redirect(top)
                            \/ q = "s" /\ is_status(top)}) <= 1
        /\ top.kind.k \in {"Request", "Body", "Decode"} =>
                ~is_builder(top) /\ ~is_redirect(top) /\ ~is_status(top)
        /\ last.op = "is_builder" => (last.res <=> top.kind.k = "Builder")
        /\ last.op = "is_redirect" => (last.res <=> top.kind.k = "Redirect")
        /\ last.op = "is_status" => (last.res <=> top.kind.k = "Status")
        /\ last.op = "status" =>
                last.res = (IF top.kind.k = "Status" THEN Some(top.kind.code) ELSE None)

\* C8 witness: status() returned Some(404).
C8_Witness ==
    /\ last.op = "status"
    /\ last.res = Some(404)

\* C10: every Error built by the constructors, with_url, into_io and
\* decode_io, at any place of a cause chain, has no cause exactly when its
\* kind is Status.
C10_NoCauseIffStatus ==
    \A a \in 1..Len(heap) :
        heap[a].tag = "Error" => (heap[a].source = None <=> heap[a].kind.k = "Status")

\* C10 witness: an Error of kind Status, without a cause, is the cause of
\* another Error, which went through an io::Error and back.
C10_Witness ==
    /\ last.op = "decode_io"
    /\ Len(heap) = 2
    /\ heap[1].tag = "Error"
    /\ heap[1].kind.k = "Status"
    /\ heap[1].source = None
    /\ heap[2].tag = "Error"
    /\ heap[2].source = Ref(1)

====
